---- MODULE Spec2Model ----
(***************************************************************************)
(* A state-machine model of the voice assistant's turn-taking core:        *)
(*   src/src/audio/recorder.py   AudioRecorder  (endpointing, input stream) *)
(*   src/src/audio/tts.py        TextToSpeech   (playback, stop signal)     *)
(*   src/src/audio/wake_word.py  WakeWordDetector                           *)
(*   src/src/assistant.py        VoiceAssistant (the turn controller)       *)
(*                                                                         *)
(* Threads of the program: the asyncio loop thread (run_async and the      *)
(* turns), the PortAudio callback thread of each open input stream, the    *)
(* wake-word thread, and a thread that may call the public stop() methods. *)
(***************************************************************************)
EXTENDS Integers, Sequences, FiniteSets, TLC

(***************************************************************************)
(* Sizes.  The durations are scaled down from the configured 1500 ms of    *)
(* silence and 15000 ms of recording; each lies just below a multiple of   *)
(* the frame duration, so that the truncation of int() is exercised.       *)
(***************************************************************************)
frame_duration_ms == 30
SilenceDurationMs == 89
MaxDurationMs == 209
ShortDurationMs == 89
MaxCalls == 2
MaxShortCalls == 1
MaxKeys == 2
MaxChunks == 2
MaxExtStops == 1
MaxWakes == 2
MaxStreamChunks == 2
MaxTtsStops == 1
MaxMessages == 3
\* conversation.py:28: max_history, scaled down.
max_history == 2
\* The listen-loop threads one detector may start.
MaxLoops == 3

\* recorder.py:129  frames_for_silence = int(silence_duration * 1000 / frame_duration_ms)
frames_for_silence == SilenceDurationMs \div frame_duration_ms
\* recorder.py:130  max_frames = int(max_duration * 1000 / frame_duration_ms)
max_frames_of(max_duration_ms) == max_duration_ms \div frame_duration_ms

\* The threads that may call AudioRecorder.record().
Callers == {1, 2}

VARIABLES
    \* ---- AudioRecorder (recorder.py) ----
    is_recording,     \* self._is_recording
    audio_buffer,     \* self._audio_buffer: the frames appended, in order
    rpc,              \* [Callers -> position of that caller inside record()]
    speech_started,   \* [Callers -> the local speech_started of its call]
    silence_frames,   \* [Callers -> the local silence_frames]
    frame_count,      \* [Callers -> the local frame_count]
    max_frames,       \* [Callers -> the local max_frames]
    stream,           \* [Callers -> "closed" | "active" | "aborted"]: its sd.InputStream
    ret,              \* [Callers -> the value its last record() returned]
    calls,            \* [Callers -> number of record() calls made]
    \* history of the current / last call of each caller
    fed,              \* [Callers -> classifications of the frames its callback processed]
    speech_starts,    \* [Callers -> number of on_speech_start() invocations]
    stop_seen,        \* [Callers -> stop() was called while its call was in progress]
    last_frame,       \* history: [Callers -> the status flag and the classifier's
                      \* outcome of the frame its callback handled last]
    path              \* [Callers -> which return statement its last call took]

VARIABLES
    \* ---- TextToSpeech (tts.py) and the pygame mixer ----
    has_pygame,       \* HAS_PYGAME
    tts_stop_event,   \* self._stop_event
    is_speaking,      \* self._is_speaking
    music_busy,       \* pygame.mixer.music.get_busy()
    now_playing,      \* the text whose audio the mixer is playing
    tmp_file,         \* the temporary .mp3 of speak() exists
    spc,              \* position inside speak(): none, synth, prepare, poll, returned
    stext,            \* the text argument of the speak() call in progress
    played,           \* history: the texts whose playback was started since
                      \* the last activation, in order
    \* ---- WakeWordDetector (wake_word.py) ----
    wake_word,        \* "none": no detector; "unavailable" / "available": is_available
    ww_is_listening,  \* self._is_listening
    ww_stop_event,    \* self._stop_event
    ww_thread,        \* none, started, open, finished
    ww_stream,        \* closed, active, aborted
    ww_callbacks,     \* history: number of on_wake invocations
    \* ---- WakeWordDetector on its own, with any caller and any on_wake ----
    porcupine,        \* self._porcupine: live, deleted (delete() was called
                      \* on it), none
    listen_loop,      \* [Loops -> position of that _listen_loop thread:
                      \* unborn, started, open, closing, finished]
    audio_cb,         \* [Loops -> position of the audio callback of its
                      \* stream: idle, checked, on_wake, aborted]
    thread_ref,       \* self._thread: the loop started last, 0 for None
    det_pc,           \* the caller: idle, stop_join, cleanup_join,
                      \* cleanup_delete, cleanup_none
    deletes,          \* history: number of self._porcupine.delete() calls
    used_deleted,     \* history: process() was called on a deleted engine
    stop_returned,    \* history: stop() returned and start() has not been
                      \* called since
    \* ---- VoiceAssistant (assistant.py) ----
    running,          \* self._running
    listening,        \* self._listening
    mpc,              \* position of run_async / _process_speech on the loop thread
    stt_loaded,       \* the Whisper model is loaded (stt.py _whisper_model)
    messages,         \* ConversationManager._messages
    response,         \* the local response of _process_speech
    stdin,            \* lines typed and not yet read by input()
    \* history
    keys,             \* number of keypresses so far
    late_turn,        \* a turn was started by a key pressed during an earlier turn
    heard_stop,       \* the utterance "stop" was transcribed
    heard_exit,       \* another exit phrase was transcribed
    ext_stops,        \* number of stop() calls from outside the loop thread
    stdin_eof,        \* input() met the end of input
    stopped_in,       \* where run_async was when stop() arrived, or "no"
    interrupted,      \* the reply generated when stop() arrived during a reply
    turn_text,        \* the local text of _process_speech, until the loop of
                      \* run_async starts over
    \* ---- TextToSpeech.speak_streaming (tts.py) ----
    ss_pc,            \* position: none, next, sentence, rest, done
    ss_gen,           \* the fragments text_generator has still to yield
    ss_buffer,        \* the local buffer
    ss_handed,        \* history: the texts passed to speak(), in order
    tts_stops,        \* history: number of TextToSpeech.stop() calls
    stop_mid_reply,   \* history: stop() arrived after the reply began to play
    played_at_stop,   \* history: Len(played) when stop() arrived
    stopped_at,       \* history: where speak_streaming and speak() were then
    ss_text,          \* history: the whole text of the generator of this call
    \* ---- ConversationManager (conversation.py) ----
    persist,          \* self.persist
    saved,            \* the session file: state none / whole / partial, and
                      \* the messages it holds
    save_warned,      \* history: an "Auto-save failed" warning was logged
    add_raised        \* history: an add_*_message call raised

ttsVars == <<has_pygame, tts_stop_event, is_speaking, music_busy, now_playing,
             tmp_file, spc, stext, played>>
detVars == <<porcupine, listen_loop, audio_cb, thread_ref, det_pc, deletes,
            used_deleted, stop_returned>>
wakeVars == <<wake_word, ww_is_listening, ww_stop_event, ww_thread, ww_stream,
              ww_callbacks, detVars>>
asstVars == <<running, listening, mpc, stt_loaded, messages, response, stdin,
              keys, late_turn, heard_stop, heard_exit, ext_stops, stdin_eof,
              stopped_in, interrupted, turn_text>>
streamVars == <<ss_pc, ss_gen, ss_buffer, ss_handed, tts_stops, stop_mid_reply,
                played_at_stop, stopped_at, ss_text>>

recVars == <<is_recording, audio_buffer, rpc, speech_started, silence_frames,
             frame_count, max_frames, stream, ret, calls, fed, speech_starts,
             stop_seen, last_frame, path>>

convVars == <<persist, saved, save_warned, add_raised>>

vars == <<recVars, ttsVars, wakeVars, asstVars, streamVars, convVars>>

\* A frame in the buffer: which stream delivered it, its index in that stream,
\* and how it was classified.
Frame(c, k, b) == [call |-> c, idx |-> k, speech |-> b]

\* No frame handled since the stream of the call was opened or closed.
NoFrame == [status |-> FALSE, vad |-> "none"]

NoResult == [kind |-> "pending", frames |-> <<>>]
NoneResult == [kind |-> "None", frames |-> <<>>]
\* recorder.py:214-227: the WAV holds the chunks joined in buffer order.
create_wav(chunks) == [kind |-> "wav", frames |-> chunks]

(***************************************************************************)
(* AudioRecorder                                                           *)
(***************************************************************************)
RecInit ==
    /\ is_recording = FALSE
    /\ audio_buffer = <<>>
    /\ rpc = [c \in Callers |-> "idle"]
    /\ speech_started = [c \in Callers |-> FALSE]
    /\ silence_frames = [c \in Callers |-> 0]
    /\ frame_count = [c \in Callers |-> 0]
    /\ max_frames = [c \in Callers |-> 0]
    /\ stream = [c \in Callers |-> "closed"]
    /\ ret = [c \in Callers |-> NoResult]
    /\ calls = [c \in Callers |-> 0]
    /\ fed = [c \in Callers |-> <<>>]
    /\ speech_starts = [c \in Callers |-> 0]
    /\ stop_seen = [c \in Callers |-> FALSE]
    /\ last_frame = [c \in Callers |-> NoFrame]
    /\ path = [c \in Callers |-> "none"]

\* A guard that never rejects (used to show what the busy guard is for).
record_busy_never == FALSE
\* line 119: if self._is_recording
record_busy == is_recording

\* line 123: self._audio_buffer = []
fresh_buffer_stale == audio_buffer
fresh_buffer == <<>>

\* record(), lines 119-131: the busy guard, then the flag, the buffer and the
\* locals of the call.
record_enter(c, max_duration_ms) ==
    /\ rpc[c] = "idle"
    /\ calls' = [calls EXCEPT ![c] = @ + 1]
    /\ IF record_busy
       THEN /\ ret' = [ret EXCEPT ![c] = NoneResult]
            /\ path' = [path EXCEPT ![c] = "busy"]
            /\ UNCHANGED <<is_recording, audio_buffer, rpc, speech_started,
                           silence_frames, frame_count, max_frames, stream,
                           fed, speech_starts, stop_seen,
                           last_frame>>
       ELSE /\ is_recording' = TRUE
            /\ audio_buffer' = fresh_buffer
            /\ speech_started' = [speech_started EXCEPT ![c] = FALSE]
            /\ silence_frames' = [silence_frames EXCEPT ![c] = 0]
            /\ frame_count' = [frame_count EXCEPT ![c] = 0]
            /\ max_frames' =
                   [max_frames EXCEPT ![c] = max_frames_of(max_duration_ms)]
            /\ rpc' = [rpc EXCEPT ![c] = "opening"]
            /\ ret' = [ret EXCEPT ![c] = NoResult]
            /\ path' = [path EXCEPT ![c] = "none"]
            /\ fed' = [fed EXCEPT ![c] = <<>>]
            /\ speech_starts' = [speech_starts EXCEPT ![c] = 0]
            /\ stop_seen' = [stop_seen EXCEPT ![c] = FALSE]
            /\ last_frame' = [last_frame EXCEPT ![c] = NoFrame]
            /\ UNCHANGED stream

\* record(), lines 206-207: the flag as the finally clause leaves it.
finally_flag_missing == is_recording
finally_flag == FALSE

\* record(), lines 182-189: entering the with-block opens the input stream;
\* when that raises, lines 203-207 return None and clear the flag.
record_open(c) ==
    /\ rpc[c] = "opening"
    /\ \/ /\ stream' = [stream EXCEPT ![c] = "active"]
          /\ rpc' = [rpc EXCEPT ![c] = "waiting"]
          /\ UNCHANGED <<is_recording, ret, path>>
       \/ /\ is_recording' = finally_flag
          /\ rpc' = [rpc EXCEPT ![c] = "idle"]
          /\ ret' = [ret EXCEPT ![c] = NoneResult]
          /\ path' = [path EXCEPT ![c] = "error"]
          /\ UNCHANGED stream
    /\ UNCHANGED <<audio_buffer, speech_started, silence_frames, frame_count,
                   max_frames, calls, fed, speech_starts, stop_seen,
                   last_frame>>

\* lines 154-158: the classifier's verdict, or the level threshold when the
\* classifier raises.
classify(vad, loud) == IF vad = "raise" THEN loud ELSE vad = "speech"

\* Every frame appended, also before speech has started.
appends_always(is_speech, started) == TRUE
\* lines 160-170: a frame is appended when it is speech, or when speech has
\* started before it.
appends(is_speech, started) == is_speech \/ started

\* The silence threshold compared with > instead of >=.
silence_end_late(is_speech, started, sil) ==
    ~is_speech /\ started /\ sil > frames_for_silence
\* lines 168-174: a silence frame after the start of speech ends the recording
\* once the run of silence has reached frames_for_silence.
silence_end(is_speech, started, sil) ==
    ~is_speech /\ started /\ sil >= frames_for_silence

\* The frame limit compared with > instead of >=.
max_end_late(fc, limit) == fc > limit
\* lines 176-179: the frame counter has reached max_frames.
max_end(fc, limit) == fc >= limit

\* A counter that a speech frame does not reset.
next_silence_no_reset(is_speech, started, sil) ==
    IF ~is_speech /\ started THEN sil + 1 ELSE sil
\* lines 160-168: the run of silence after a frame: a speech frame resets it
\* (line 165), a silence frame after the start of speech adds one (168).
next_silence(is_speech, started, sil) ==
    IF is_speech THEN 0
    ELSE IF started THEN sil + 1
    ELSE sil

\* lines 160-165: on_speech_start is called on a speech frame when speech had
\* not started.
emits_start_each(is_speech, started) == is_speech
emits_start(is_speech, started) == is_speech /\ ~started

\* lines 142-143: the callback's test of the flag before it touches the frame.
callback_aborts_never == FALSE
callback_aborts == ~is_recording

\* audio_callback, lines 136-179, on the PortAudio thread of caller c's stream.
\* status only causes a log line (139-140).
audio_callback(c, status, vad, loud) ==
    /\ stream[c] = "active"
    /\ IF callback_aborts
       THEN \* lines 142-143: raise sd.CallbackAbort()
            /\ stream' = [stream EXCEPT ![c] = "aborted"]
            /\ UNCHANGED <<is_recording, audio_buffer, speech_started,
                           silence_frames, frame_count, fed, speech_starts,
                           last_frame>>
       ELSE LET is_speech == classify(vad, loud)
                chunk == Frame(c, Len(fed[c]) + 1, is_speech)
                sil == next_silence(is_speech, speech_started[c],
                                    silence_frames[c])
                fc == frame_count[c] + 1
                ended == \/ silence_end(is_speech, speech_started[c], sil)
                         \/ max_end(fc, max_frames[c])
            IN  /\ speech_started' =
                       [speech_started EXCEPT ![c] = @ \/ is_speech]
                /\ speech_starts' =
                       [speech_starts EXCEPT
                          ![c] = IF emits_start(is_speech, speech_started[c])
                                 THEN @ + 1 ELSE @]
                /\ silence_frames' = [silence_frames EXCEPT ![c] = sil]
                /\ audio_buffer' =
                       IF appends(is_speech, speech_started[c])
                       THEN Append(audio_buffer, chunk) ELSE audio_buffer
                /\ frame_count' = [frame_count EXCEPT ![c] = fc]
                /\ is_recording' =
                       IF ended THEN FALSE ELSE is_recording
                /\ fed' = [fed EXCEPT ![c] = Append(@, is_speech)]
                /\ last_frame' = [last_frame EXCEPT
                                     ![c] = [status |-> status, vad |-> vad]]
                /\ UNCHANGED stream
    /\ UNCHANGED <<rpc, max_frames, ret, calls, stop_seen, path>>

\* lines 190-191: the wait loop ends once the flag is clear; leaving the
\* with-block closes the stream.
record_wake(c) ==
    /\ rpc[c] = "waiting"
    /\ ~is_recording
    /\ stream' = [stream EXCEPT ![c] = "closed"]
    /\ rpc' = [rpc EXCEPT ![c] = "closed"]
    /\ UNCHANGED <<is_recording, audio_buffer, speech_started, silence_frames,
                   frame_count, max_frames, ret, calls, fed, speech_starts,
                   stop_seen, path>>
    /\ last_frame' = [last_frame EXCEPT ![c] = NoFrame]

\* line 197: if self._audio_buffer
has_audio_always == TRUE
has_audio == audio_buffer # <<>>

\* lines 193-207: on_speech_end, the WAV or None, and the finally clause.
record_return(c) ==
    /\ rpc[c] = "closed"
    /\ IF has_audio
       THEN /\ ret' = [ret EXCEPT ![c] = create_wav(audio_buffer)]
            /\ path' = [path EXCEPT ![c] = "wav"]
       ELSE /\ ret' = [ret EXCEPT ![c] = NoneResult]
            /\ path' = [path EXCEPT ![c] = "empty"]
    /\ is_recording' = finally_flag
    /\ rpc' = [rpc EXCEPT ![c] = "idle"]
    /\ UNCHANGED <<audio_buffer, speech_started, silence_frames, frame_count,
                   max_frames, stream, calls, fed, speech_starts, stop_seen,
                   last_frame>>

\* AudioRecorder.stop(), lines 209-212, from any thread.
recorder_stop ==
    /\ is_recording' = FALSE
    /\ stop_seen' = [c \in Callers |->
                        IF rpc[c] # "idle" THEN TRUE ELSE stop_seen[c]]
    /\ UNCHANGED <<audio_buffer, rpc, speech_started, silence_frames,
                   frame_count, max_frames, stream, ret, calls, fed,
                   speech_starts, last_frame, path>>

(***************************************************************************)
(* TextToSpeech                                                            *)
(***************************************************************************)
TtsInit ==
    /\ has_pygame \in BOOLEAN
    /\ tts_stop_event = FALSE
    /\ is_speaking = FALSE
    /\ music_busy = FALSE
    /\ now_playing = <<>>
    /\ tmp_file = FALSE
    /\ spc = "none"
    /\ stext = <<>>
    /\ played = <<>>

\* speak(), lines 147-155: without pygame it returns at once; otherwise it
\* awaits synthesize().
speak_call(text) ==
    /\ spc = "none"
    /\ IF has_pygame
       THEN spc' = "synth" /\ stext' = text
       ELSE spc' = "returned" /\ stext' = <<>>
    /\ UNCHANGED <<has_pygame, tts_stop_event, is_speaking, music_busy,
                   now_playing, tmp_file, played>>

\* speak(), lines 155-162: synthesize() has answered; with no audio speak()
\* returns, otherwise the stop event is cleared and the speaking flag set.
speak_synth_done(audio_ok) ==
    /\ spc = "synth"
    /\ IF audio_ok
       THEN /\ tts_stop_event' = FALSE
            /\ is_speaking' = TRUE
            /\ spc' = "prepare"
            /\ UNCHANGED stext
       ELSE /\ spc' = "returned"
            /\ stext' = <<>>
            /\ UNCHANGED <<tts_stop_event, is_speaking>>
    /\ UNCHANGED <<has_pygame, music_busy, now_playing, tmp_file, played>>

\* speak(), lines 164-185: the temporary file, load and play, the first test
\* of the wait loop, and the except / finally clauses when a step raises.
speak_play(outcome) ==
    /\ spc = "prepare"
    /\ IF outcome = "ok"
       THEN /\ music_busy' = TRUE
            /\ now_playing' = stext
            /\ played' = Append(played, stext)
            /\ IF tts_stop_event
               THEN \* the loop is skipped: finally
                    /\ is_speaking' = FALSE
                    /\ tmp_file' = FALSE
                    /\ spc' = "returned"
                    /\ stext' = <<>>
               ELSE /\ tmp_file' = TRUE
                    /\ spc' = "poll"
                    /\ UNCHANGED <<is_speaking, stext>>
       ELSE \* the file could not be written, or load / play raised
            /\ is_speaking' = FALSE
            /\ tmp_file' = FALSE
            /\ spc' = "returned"
            /\ stext' = <<>>
            /\ UNCHANGED <<music_busy, now_playing, played>>
    /\ UNCHANGED <<has_pygame, tts_stop_event>>

\* speak(), line 175: the condition that ends the wait loop (wait is true in
\* every call the assistant makes).
poll_done_no_wait == TRUE
poll_done == ~music_busy \/ tts_stop_event

\* speak(), lines 175-185: the wait loop ends when the mixer is idle or the
\* stop event is set; finally clears the flag and removes the file.
speak_poll_exit ==
    /\ spc = "poll"
    /\ poll_done
    /\ is_speaking' = FALSE
    /\ tmp_file' = FALSE
    /\ spc' = "returned"
    /\ stext' = <<>>
    /\ UNCHANGED <<has_pygame, tts_stop_event, music_busy, now_playing, played>>

\* The mixer reaches the end of the audio.
music_ends ==
    /\ music_busy
    /\ music_busy' = FALSE
    /\ now_playing' = <<>>
    /\ UNCHANGED <<has_pygame, tts_stop_event, is_speaking, tmp_file, spc,
                   stext, played>>

\* TextToSpeech.stop(), lines 226-236 (the four fields it writes).
tts_stop ==
    /\ tts_stop_event' = TRUE
    /\ music_busy' = FALSE
    /\ now_playing' = <<>>
    /\ is_speaking' = FALSE

(***************************************************************************)
(* WakeWordDetector                                                        *)
(***************************************************************************)
\* wake_word.py:61-64: the fields of a new detector whose engine was created.
Loops == 1..MaxLoops
DetInit ==
    /\ porcupine = "live"
    /\ listen_loop = [t \in Loops |-> "unborn"]
    /\ audio_cb = [t \in Loops |-> "idle"]
    /\ thread_ref = 0
    /\ det_pc = "idle"
    /\ deletes = 0
    /\ used_deleted = FALSE
    /\ stop_returned = FALSE

\* assistant.py:74-84 and wake_word.py:66-76, 101-103: no access key gives no
\* detector; with a key the engine may still fail to initialise.
WakeInit ==
    /\ wake_word \in {"none", "unavailable", "available"}
    /\ ww_is_listening = FALSE
    /\ ww_stop_event = FALSE
    /\ ww_thread = "none"
    /\ ww_stream = "closed"
    /\ ww_callbacks = 0
    /\ DetInit

\* WakeWordDetector.start(), lines 110-131.
wake_start ==
    IF wake_word # "available" \/ ww_is_listening
    THEN UNCHANGED wakeVars
    ELSE /\ ww_stop_event' = FALSE
         /\ ww_is_listening' = TRUE
         /\ ww_thread' = "started"
         /\ UNCHANGED <<wake_word, ww_stream, ww_callbacks, detVars>>

\* _listen_loop, lines 135-169: the stream is opened, or opening raises and
\* the finally clause clears the flag.
wake_open(ok) ==
    /\ ww_thread = "started"
    /\ IF ok
       THEN /\ ww_stream' = "active"
            /\ ww_thread' = "open"
            /\ UNCHANGED ww_is_listening
       ELSE /\ ww_thread' = "finished"
            /\ ww_is_listening' = FALSE
            /\ UNCHANGED ww_stream
    /\ UNCHANGED <<wake_word, ww_stop_event, ww_callbacks, detVars>>

\* The callback given at assistant.py:201 runs on the PortAudio thread:
\* asyncio.create_task finds no running event loop there and raises
\* RuntimeError, so no turn is scheduled.
on_wake_returns == FALSE
on_wake_raises == TRUE

\* _listen_loop.audio_callback, lines 139-152.  With the stop event set the
\* callback aborts the stream; a frame without the keyword changes nothing;
\* on a match on_wake is invoked, and the exception it raises leaves the audio
\* callback: the audio library aborts the stream and calls it no more.
wake_frame(matched) ==
    /\ ww_stream = "active"
    /\ IF ww_stop_event
       THEN /\ ww_stream' = "aborted"
            /\ UNCHANGED ww_callbacks
       ELSE IF matched
       THEN /\ ww_callbacks < MaxWakes
            /\ ww_callbacks' = ww_callbacks + 1
            /\ ww_stream' = IF on_wake_raises THEN "aborted" ELSE "active"
       ELSE UNCHANGED <<ww_stream, ww_callbacks>>
    /\ UNCHANGED <<wake_word, ww_is_listening, ww_stop_event, ww_thread,
                   detVars>>

\* _listen_loop, lines 162-169: the wait loop sees the stop event; the stream
\* is closed and the flag cleared.
wake_loop_exit ==
    /\ ww_thread = "open"
    /\ ww_stop_event
    /\ ww_stream' = "closed"
    /\ ww_thread' = "finished"
    /\ ww_is_listening' = FALSE
    /\ UNCHANGED <<wake_word, ww_stop_event, ww_callbacks, detVars>>

\* WakeWordDetector.stop(), lines 171-179 (the fields it writes).
wake_stop ==
    /\ ww_stop_event' = TRUE
    /\ ww_is_listening' = FALSE

(***************************************************************************)
(* WakeWordDetector on its own: start(), stop() and cleanup() called in    *)
(* any order by one caller, the _listen_loop threads, and the audio        *)
(* callback of each stream with a caller-supplied on_wake.                 *)
(***************************************************************************)
\* threading.Thread.is_alive() of a loop thread.
is_alive(t) == listen_loop[t] \in {"started", "open", "closing"}
\* The number of the thread the next start() creates.
next_loop == Cardinality({t \in Loops : listen_loop[t] # "unborn"}) + 1

\* start(), lines 110-131.
det_start ==
    /\ det_pc = "idle"
    /\ IF porcupine = "none" \/ ww_is_listening
       THEN UNCHANGED <<ww_stop_event, ww_is_listening, listen_loop,
                        thread_ref, stop_returned>>
       ELSE /\ next_loop \in Loops
            /\ ww_stop_event' = FALSE
            /\ ww_is_listening' = TRUE
            /\ listen_loop' = [listen_loop EXCEPT ![next_loop] = "started"]
            /\ thread_ref' = next_loop
            /\ stop_returned' = FALSE
    /\ UNCHANGED <<porcupine, audio_cb, det_pc, deletes, used_deleted>>
    /\ UNCHANGED <<wake_word, ww_thread, ww_stream, ww_callbacks>>

\* _listen_loop, lines 135-161 and 165-169: the thread reads the frame length
\* of the engine and opens the stream.  With the engine gone (AttributeError
\* on None) or when opening raises, the except clause logs and the finally
\* clause clears the flag.
det_open(t, ok) ==
    /\ listen_loop[t] = "started"
    /\ IF ok /\ porcupine # "none"
       THEN /\ listen_loop' = [listen_loop EXCEPT ![t] = "open"]
            /\ UNCHANGED ww_is_listening
       ELSE /\ listen_loop' = [listen_loop EXCEPT ![t] = "finished"]
            /\ ww_is_listening' = FALSE
    /\ UNCHANGED <<porcupine, audio_cb, thread_ref, det_pc, deletes,
                   used_deleted, stop_returned>>
    /\ UNCHANGED <<wake_word, ww_stop_event, ww_thread, ww_stream,
                   ww_callbacks>>

\* Lines 162-163: the wait loop of a thread sees the stop event and leaves
\* the with block.
det_leave(t) ==
    /\ listen_loop[t] = "open"
    /\ ww_stop_event
    /\ listen_loop' = [listen_loop EXCEPT ![t] = "closing"]
    /\ UNCHANGED <<porcupine, audio_cb, thread_ref, det_pc, deletes,
                   used_deleted, stop_returned>>
    /\ UNCHANGED <<wake_word, ww_is_listening, ww_stop_event, ww_thread,
                   ww_stream, ww_callbacks>>

\* Lines 154-169: leaving the with block closes the stream, which waits for
\* a callback in progress; then the finally clause clears the flag.
det_close(t) ==
    /\ listen_loop[t] = "closing"
    /\ audio_cb[t] \in {"idle", "aborted"}
    /\ listen_loop' = [listen_loop EXCEPT ![t] = "finished"]
    /\ ww_is_listening' = FALSE
    /\ UNCHANGED <<porcupine, audio_cb, thread_ref, det_pc, deletes,
                   used_deleted, stop_returned>>
    /\ UNCHANGED <<wake_word, ww_stop_event, ww_thread, ww_stream,
                   ww_callbacks>>

\* audio_callback, lines 139-140.
cb_aborts == ww_stop_event

\* audio_callback, lines 139-143: a frame arrives on an open stream; with the
\* stop event set the callback raises CallbackAbort and is called no more.
det_frame(t) ==
    /\ listen_loop[t] \in {"open", "closing"}
    /\ audio_cb[t] = "idle"
    /\ audio_cb' = [audio_cb EXCEPT
                        ![t] = IF cb_aborts THEN "aborted" ELSE "checked"]
    /\ UNCHANGED <<porcupine, listen_loop, thread_ref, det_pc, deletes,
                   used_deleted, stop_returned>>
    /\ UNCHANGED <<wake_word, ww_is_listening, ww_stop_event, ww_thread,
                   ww_stream, ww_callbacks>>

\* audio_callback, lines 146-152: process() on the engine; with
\* self._porcupine None the attribute access raises and the stream is
\* aborted; on a match on_wake is invoked.
det_process(t, matched) ==
    /\ audio_cb[t] = "checked"
    /\ used_deleted' = (used_deleted \/ porcupine = "deleted")
    /\ IF porcupine = "none"
       THEN /\ audio_cb' = [audio_cb EXCEPT ![t] = "aborted"]
            /\ UNCHANGED ww_callbacks
       ELSE IF matched
       THEN /\ ww_callbacks < MaxWakes
            /\ ww_callbacks' = ww_callbacks + 1
            /\ audio_cb' = [audio_cb EXCEPT ![t] = "on_wake"]
       ELSE /\ audio_cb' = [audio_cb EXCEPT ![t] = "idle"]
            /\ UNCHANGED ww_callbacks
    /\ UNCHANGED <<porcupine, listen_loop, thread_ref, det_pc, deletes,
                   stop_returned>>
    /\ UNCHANGED <<wake_word, ww_is_listening, ww_stop_event, ww_thread,
                   ww_stream>>

\* Line 152: on_wake returns, or raises and the stream is aborted.
det_wake_done(t, raised) ==
    /\ audio_cb[t] = "on_wake"
    /\ audio_cb' = [audio_cb EXCEPT
                        ![t] = IF raised THEN "aborted" ELSE "idle"]
    /\ UNCHANGED <<porcupine, listen_loop, thread_ref, det_pc, deletes,
                   used_deleted, stop_returned>>
    /\ UNCHANGED <<wake_word, ww_is_listening, ww_stop_event, ww_thread,
                   ww_stream, ww_callbacks>>

\* stop(), lines 171-177, up to the join: the caller waits when the thread
\* started last is alive, and has returned otherwise.
det_stop_enter(joining, after) ==
    /\ wake_stop
    /\ IF thread_ref # 0 /\ is_alive(thread_ref)
       THEN det_pc' = joining /\ UNCHANGED stop_returned
       ELSE det_pc' = after /\ stop_returned' = TRUE
    /\ UNCHANGED <<porcupine, listen_loop, audio_cb, thread_ref, deletes,
                   used_deleted>>
    /\ UNCHANGED <<wake_word, ww_thread, ww_stream, ww_callbacks>>

\* What a loop thread can be held up by for longer than the timeout of the
\* join: the opening of the stream, and the closing of a stream whose
\* callback is inside on_wake.
held_up(t) ==
    \/ listen_loop[t] = "started"
    \/ listen_loop[t] = "closing" /\ audio_cb[t] = "on_wake"

\* stop(), lines 176-179: join(timeout=1.0) returns because the thread has
\* finished or because the second is over.
det_join_return(joining, after) ==
    /\ det_pc = joining
    /\ \/ listen_loop[thread_ref] = "finished"
       \/ held_up(thread_ref)
    /\ det_pc' = after
    /\ stop_returned' = TRUE
    /\ UNCHANGED <<porcupine, listen_loop, audio_cb, thread_ref, deletes,
                   used_deleted>>
    /\ UNCHANGED <<wake_word, ww_is_listening, ww_stop_event, ww_thread,
                   ww_stream, ww_callbacks>>

\* cleanup(), lines 184-185.
det_delete ==
    /\ det_pc = "cleanup_delete"
    /\ IF porcupine # "none"
       THEN /\ porcupine' = "deleted"
            /\ deletes' = deletes + 1
            /\ det_pc' = "cleanup_none"
       ELSE /\ det_pc' = "idle"
            /\ UNCHANGED <<porcupine, deletes>>
    /\ UNCHANGED <<listen_loop, audio_cb, thread_ref, used_deleted,
                   stop_returned>>
    /\ UNCHANGED <<wake_word, ww_is_listening, ww_stop_event, ww_thread,
                   ww_stream, ww_callbacks>>

\* cleanup(), line 186.
det_forget ==
    /\ det_pc = "cleanup_none"
    /\ porcupine' = "none"
    /\ det_pc' = "idle"
    /\ UNCHANGED <<listen_loop, audio_cb, thread_ref, deletes, used_deleted,
                   stop_returned>>
    /\ UNCHANGED <<wake_word, ww_is_listening, ww_stop_event, ww_thread,
                   ww_stream, ww_callbacks>>

(***************************************************************************)
(* VoiceAssistant                                                          *)
(***************************************************************************)
\* What the recogniser may return for a segment (stt.py:126 strips it).
Utterances ==
    { <<>>,
      <<"a">>,
      <<"q", "u", "i", "t">>,
      <<"S", "t", "o", "p">>,
      <<"s", "h", "u", "t", " ", "u", "p">>,
      <<"h", "i", ".">> }

\* str.lower(), on the characters used here.
lower_char(ch) == IF ch = "S" THEN "s" ELSE ch
lower(text) == [i \in 1..Len(text) |-> lower_char(text[i])]

\* str.strip(): blanks are removed from both ends.
RECURSIVE lstrip(_)
lstrip(text) ==
    IF text # <<>> /\ Head(text) = " " THEN lstrip(Tail(text)) ELSE text
RECURSIVE rstrip(_)
rstrip(text) ==
    IF text # <<>> /\ text[Len(text)] = " "
    THEN rstrip(SubSeq(text, 1, Len(text) - 1))
    ELSE text
strip(text) == rstrip(lstrip(text))

\* assistant.py:132 ("arrete" stands for the accented word of the source)
exit_commands ==
    { <<"e", "x", "i", "t">>,
      <<"q", "u", "i", "t">>,
      <<"s", "t", "o", "p">>,
      <<"g", "o", "o", "d", "b", "y", "e">>,
      <<"b", "y", "e">>,
      <<"a", "r", "r", "e", "t", "e">>,
      <<"a", "u", " ", "r", "e", "v", "o", "i", "r">> }
\* assistant.py:139
stop_speaking_commands ==
    { <<"s", "t", "o", "p">>,
      <<"a", "r", "r", "e", "t", "e">>,
      <<"t", "a", "i", "s", "-", "t", "o", "i">>,
      <<"s", "h", "u", "t", " ", "u", "p">> }
stop_word == <<"s", "t", "o", "p">>

\* The fixed texts the assistant speaks (assistant.py:196 and 165-167) and
\* the system prompt.
greeting_text == <<"H", "e", "l", "l", "o", "!">>
goodbye_text == <<"G", "o", "o", "d", "b", "y", "e", "!">>
system_prompt == <<"p">>
\* One fragment of a reply, and the apology of llm.py:137-139.
reply_fragment == <<"o", "k", ".">>
apology_text == <<"S", "o", "r", "r", "y", ".">>

\* conversation.py:56-60: the history starts with the system prompt.
AsstInit ==
    /\ running = FALSE
    /\ listening = FALSE
    /\ mpc = "init"
    /\ stt_loaded = FALSE
    /\ messages = <<[role |-> "system", content |-> system_prompt]>>
    /\ response = <<>>
    /\ stdin = <<>>
    /\ keys = 0
    /\ late_turn = FALSE
    /\ heard_stop = FALSE
    /\ heard_exit = FALSE
    /\ ext_stops = 0
    /\ stdin_eof = FALSE
    /\ stopped_in = "no"
    /\ interrupted = <<>>
    /\ turn_text = <<>>

(***************************************************************************)
(* ConversationManager                                                     *)
(***************************************************************************)
\* conversation.py:62-64: the directory is made at construction; nothing is
\* written before the first message.
ConvInit ==
    /\ persist \in BOOLEAN
    /\ saved = [state |-> "none", messages |-> <<>>]
    /\ save_warned = FALSE
    /\ add_raised = FALSE

\* save(), lines 171-174: the file holds the messages other than the system
\* prompt.
on_disk(msgs) == SelectSeq(msgs, LAMBDA m : m.role # "system")

\* save(), lines 156-187: it succeeds; or mkdir / open raises and the file is
\* as it was; or json.dump raises after open(..., 'w') has truncated the file.
SaveOutcomes == {"ok", "open_fails", "dump_fails"}
save(msgs, outcome) ==
    saved' = CASE outcome = "ok" -> [state |-> "whole", messages |-> on_disk(msgs)]
               [] outcome = "open_fails" -> saved
               [] outcome = "dump_fails" -> [state |-> "partial", messages |-> <<>>]

\* _auto_save, lines 149-154: "except Exception" logs a warning.
auto_save_reraises == FALSE
auto_save_catches == TRUE

\* add_user_message / add_assistant_message, lines 98-108 and 110-120: the
\* append, then _auto_save() when persist is set.
add_message_as(role, content, outcome) ==
    LET new == Append(messages, [role |-> role, content |-> content])
    IN  /\ messages' = new
        /\ IF persist
           THEN /\ save(new, outcome)
                /\ save_warned' = (save_warned \/ (outcome # "ok" /\ auto_save_catches))
                /\ add_raised' = (add_raised \/ (outcome # "ok" /\ ~auto_save_catches))
           ELSE UNCHANGED <<saved, save_warned, add_raised>>
        /\ UNCHANGED persist

\* config.py:74 and 178-179: conversations are persisted by default.
ConvDefault == ConvInit /\ persist

\* Inside a turn the file system is taken to work: the turn does not read the
\* file.
TurnSaveOutcomes == {"ok"}
add_user_message(content) ==
    \E outcome \in TurnSaveOutcomes : add_message_as("user", content, outcome)
\* The reply stored under the role of the user.
add_assistant_message_as_user(content) ==
    \E outcome \in TurnSaveOutcomes : add_message_as("user", content, outcome)
add_assistant_message(content) ==
    \E outcome \in TurnSaveOutcomes : add_message_as("assistant", content, outcome)

\* A turn (_process_speech) is in progress.
InTurn == mpc \in {"turn_record", "turn_gen", "turn_reply", "turn_goodbye"}

\* A stop() that leaves the running flag as it is.
assistant_stop_keeps_running ==
    /\ running' = running
    /\ tts_stop
    /\ IF wake_word # "none"
       THEN wake_stop
       ELSE UNCHANGED <<ww_stop_event, ww_is_listening>>

\* VoiceAssistant.stop(), lines 227-233; the caller frames spc, stext,
\* tmp_file, played, has_pygame and the rest of the detector.
assistant_stop ==
    /\ running' = FALSE
    /\ tts_stop
    /\ IF wake_word # "none"
       THEN wake_stop
       ELSE UNCHANGED <<ww_stop_event, ww_is_listening>>

\* VoiceAssistant.cleanup(), lines 235-242: stop(), then the detector's
\* cleanup(), which stops it again and deletes the engine.
assistant_cleanup ==
    /\ assistant_stop
    /\ wake_word' = IF wake_word = "none" THEN "none" ELSE "unavailable"

\* run_async, lines 187 and 199: "self.wake_word and
\* self.wake_word.is_available".
wake_word_mode_if_detector == wake_word # "none"
wake_word_mode == wake_word # "none" /\ wake_word = "available"

\* run_async, lines 199-207: the loop entered after the greeting.
after_greeting_ptt == "ptt_top"
after_greeting == IF wake_word_mode THEN "wake_loop" ELSE "ptt_top"

\* The positions of run_async in the push-to-talk variant.
PttStates ==
    {"ptt_top", "ptt_input", "turn_record", "turn_gen", "turn_reply",
     "turn_goodbye"}

\* run_async, lines 181-196: the flag, then the greeting.
RunStart ==
    /\ mpc = "init"
    /\ running' = TRUE
    /\ speak_call(greeting_text)
    /\ mpc' = "greet"
    /\ UNCHANGED <<listening, stt_loaded, messages, response, stdin, keys,
                   late_turn, heard_stop, heard_exit, ext_stops, stdin_eof,
                   stopped_in, interrupted>>
    /\ UNCHANGED <<recVars, wakeVars>>
    /\ UNCHANGED <<streamVars, convVars, turn_text>>

\* run_async, lines 196-207: the greeting is over; the detector is started when
\* there is one and it is available, otherwise the push-to-talk loop begins.
GreetDone ==
    /\ mpc = "greet" /\ spc = "returned"
    /\ spc' = "none"
    /\ IF wake_word_mode THEN wake_start ELSE UNCHANGED wakeVars
    /\ mpc' = after_greeting
    /\ UNCHANGED <<has_pygame, tts_stop_event, is_speaking, music_busy,
                   now_playing, tmp_file, stext, played>>
    /\ UNCHANGED <<running, listening, stt_loaded, messages, response, stdin,
                   keys, late_turn, heard_stop, heard_exit, ext_stops,
                   stdin_eof, stopped_in, interrupted>>
    /\ UNCHANGED recVars
    /\ UNCHANGED <<streamVars, convVars, turn_text>>

\* run_async, lines 203-204 and 217-218: the wake-word loop ends when the
\* running flag is clear; cleanup() follows.
WakeLoopExit ==
    /\ mpc = "wake_loop" /\ ~running
    /\ assistant_cleanup
    /\ mpc' = "done"
    /\ UNCHANGED <<has_pygame, tmp_file, spc, stext, played>>
    /\ UNCHANGED <<ww_thread, ww_stream, ww_callbacks, detVars>>
    /\ UNCHANGED <<listening, stt_loaded, messages, response, stdin, keys,
                   late_turn, heard_stop, heard_exit, ext_stops, stdin_eof,
                   stopped_in, interrupted>>
    /\ UNCHANGED recVars
    /\ UNCHANGED <<streamVars, convVars, turn_text>>

\* run_async, lines 207-209 and 217-218: the test of the push-to-talk loop.
PttTop ==
    /\ mpc = "ptt_top"
    /\ IF running
       THEN /\ mpc' = "ptt_input"
            /\ UNCHANGED <<running, ttsVars, wakeVars>>
       ELSE /\ assistant_cleanup
            /\ mpc' = "done"
            /\ UNCHANGED <<has_pygame, tmp_file, spc, stext, played>>
            /\ UNCHANGED <<ww_thread, ww_stream, ww_callbacks, detVars>>
    /\ UNCHANGED <<listening, stt_loaded, messages, response, stdin, keys,
                   late_turn, heard_stop, heard_exit, ext_stops, stdin_eof,
                   stopped_in, interrupted>>
    /\ UNCHANGED recVars
    /\ turn_text' = <<>>
    /\ UNCHANGED <<streamVars, convVars>>

\* A key press: a line for input().  The tag records whether a turn was in
\* progress when it was typed.
KeyPress ==
    /\ keys < MaxKeys
    /\ mpc \notin {"done", "crashed"}
    /\ keys' = keys + 1
    /\ stdin' = Append(stdin, IF InTurn THEN "busy" ELSE "idle")
    /\ UNCHANGED <<running, listening, mpc, stt_loaded, messages, response,
                   late_turn, heard_stop, heard_exit, ext_stops, stdin_eof,
                   stopped_in, interrupted>>
    /\ UNCHANGED <<recVars, ttsVars, wakeVars>>
    /\ UNCHANGED <<streamVars, convVars, turn_text>>

\* run_async, line 210: the flag is tested again once input() has returned.
still_running_unchecked == TRUE
still_running == running

\* run_async, lines 209-211, and _process_speech, lines 104-114: input() has
\* read a line; when still running the turn starts and calls record().  The
\* recording of a turn is given the short limit: the turn depends only on
\* what record() returns.
PttInput ==
    /\ mpc = "ptt_input"
    /\ stdin # <<>>
    /\ stdin' = Tail(stdin)
    /\ IF still_running
       THEN /\ listening' = TRUE
            /\ late_turn' = (late_turn \/ Head(stdin) = "busy")
            /\ record_enter(1, ShortDurationMs)
            /\ mpc' = "turn_record"
            /\ played' = <<>>
       ELSE /\ mpc' = "ptt_top"
            /\ UNCHANGED <<listening, late_turn, recVars, played>>
    /\ UNCHANGED <<running, stt_loaded, messages, response, keys, heard_stop,
                   heard_exit, ext_stops, stdin_eof, stopped_in, interrupted>>
    /\ UNCHANGED <<has_pygame, tts_stop_event, is_speaking, music_busy,
                   now_playing, tmp_file, spc, stext>>
    /\ UNCHANGED wakeVars
    /\ UNCHANGED <<streamVars, convVars, turn_text>>

\* run_async, lines 212-218: input() raises EOFError; break, then cleanup().
PttEof ==
    /\ mpc = "ptt_input"
    /\ stdin = <<>>
    /\ stdin_eof' = TRUE
    /\ assistant_cleanup
    /\ mpc' = "done"
    /\ UNCHANGED <<has_pygame, tmp_file, spc, stext, played>>
    /\ UNCHANGED <<ww_thread, ww_stream, ww_callbacks, detVars>>
    /\ UNCHANGED <<listening, stt_loaded, messages, response, stdin, keys,
                   late_turn, heard_stop, heard_exit, ext_stops, stopped_in, interrupted>>
    /\ UNCHANGED recVars
    /\ UNCHANGED <<streamVars, convVars, turn_text>>

\* SpeechToText.transcribe as _process_speech sees it (stt.py:90-141): it
\* raises when the model cannot be loaded (line 105, outside the try) or the
\* temporary file cannot be written (108-110); a failure of the transcription
\* itself gives ("", "en"); otherwise it gives the text.
SttOutcomes ==
    {[kind |-> k, text |-> <<>>] : k \in {"load_raises", "tmp_raises", "failed"}}
        \cup {[kind |-> "text", text |-> u] : u \in Utterances}

\* _process_speech, line 125: "not text or len(text.strip()) < 2".
too_short_never(t) == FALSE
too_short(t) == t = <<>> \/ Len(strip(t)) < 2

\* _process_speech, lines 116-147: record() has returned.
TurnAfterRecord ==
    /\ mpc = "turn_record"
    /\ rpc[1] = "idle"
    /\ listening' = FALSE
    /\ IF ret[1].kind # "wav"
       THEN \* lines 118-120
            /\ mpc' = "ptt_top"
            /\ turn_text' = <<>>
            /\ UNCHANGED <<running, stt_loaded, messages, convVars, response,
                           heard_stop, heard_exit, ttsVars, wakeVars>>
       ELSE \E outcome \in SttOutcomes :
            /\ outcome.kind = "load_raises" => ~stt_loaded
            /\ turn_text' = outcome.text
            /\ IF outcome.kind \in {"load_raises", "tmp_raises"}
               THEN \* the exception leaves _process_speech and run_async;
                    \* the finally clause of run_async runs cleanup()
                    /\ assistant_cleanup
                    /\ mpc' = "crashed"
                    /\ stt_loaded' = (outcome.kind = "tmp_raises")
                    /\ UNCHANGED <<messages, convVars, response, heard_stop, heard_exit>>
                    /\ UNCHANGED <<has_pygame, tmp_file, spc, stext, played>>
                    /\ UNCHANGED <<ww_thread, ww_stream, ww_callbacks, detVars>>
               ELSE LET text == outcome.text
                        said == strip(lower(text))
                    IN  /\ stt_loaded' = TRUE
                        /\ IF too_short(text)
                           THEN \* lines 125-127
                                /\ mpc' = "ptt_top"
                                /\ UNCHANGED <<running, messages, convVars, response,
                                               heard_stop, heard_exit,
                                               ttsVars, wakeVars>>
                           ELSE IF said \in exit_commands
                           THEN \* lines 133-134: the goodbye is spoken first
                                /\ speak_call(goodbye_text)
                                /\ mpc' = "turn_goodbye"
                                /\ heard_stop' = (heard_stop \/ said = stop_word)
                                /\ heard_exit' = (heard_exit \/ said # stop_word)
                                /\ UNCHANGED <<running, messages, convVars, response,
                                               wakeVars>>
                           ELSE IF said \in stop_speaking_commands
                           THEN \* lines 139-141
                                /\ tts_stop
                                /\ mpc' = "ptt_top"
                                /\ UNCHANGED <<running, messages, convVars, response,
                                               heard_stop, heard_exit,
                                               wakeVars>>
                                /\ UNCHANGED <<has_pygame, tmp_file, spc,
                                               stext, played>>
                           ELSE \* lines 144-149
                                /\ add_user_message(text)
                                /\ response' = <<>>
                                /\ mpc' = "turn_gen"
                                /\ UNCHANGED <<running, heard_stop,
                                               heard_exit, ttsVars, wakeVars>>
    /\ UNCHANGED <<stdin, keys, late_turn, ext_stops, stdin_eof, stopped_in, interrupted>>
    /\ UNCHANGED recVars
    /\ UNCHANGED streamVars

\* _process_speech, lines 150-152: one more fragment of the reply.
LlmChunk ==
    /\ mpc = "turn_gen"
    /\ Len(response) < MaxChunks * Len(reply_fragment)
    /\ response' = response \o reply_fragment
    /\ UNCHANGED <<running, listening, mpc, stt_loaded, messages, stdin, keys,
                   late_turn, heard_stop, heard_exit, ext_stops, stdin_eof,
                   stopped_in, interrupted>>
    /\ UNCHANGED <<recVars, ttsVars, wakeVars>>
    /\ UNCHANGED <<streamVars, convVars, turn_text>>

\* _process_speech, lines 150-160: the stream ends, normally or with the
\* apology that stream_chat yields when the service fails (llm.py:137-139);
\* the reply is stored and speak() is called with it.
LlmEnd ==
    /\ mpc = "turn_gen"
    /\ \E failed \in BOOLEAN :
          LET reply == IF failed THEN response \o apology_text ELSE response
          IN  /\ response' = reply
              /\ add_assistant_message(reply)
    /\ speak_call(response')
    /\ mpc' = "turn_reply"
    /\ UNCHANGED <<running, listening, stt_loaded, stdin, keys, late_turn,
                   heard_stop, heard_exit, ext_stops, stdin_eof, stopped_in, interrupted>>
    /\ UNCHANGED <<recVars, wakeVars>>
    /\ UNCHANGED <<streamVars, turn_text>>

\* _process_speech, line 160, and run_async, line 211: speak() has returned
\* and the turn is over.
ReplyDone ==
    /\ mpc = "turn_reply" /\ spc = "returned"
    /\ spc' = "none"
    /\ mpc' = "ptt_top"
    /\ UNCHANGED <<has_pygame, tts_stop_event, is_speaking, music_busy,
                   now_playing, tmp_file, stext, played>>
    /\ UNCHANGED <<running, listening, stt_loaded, messages, response, stdin,
                   keys, late_turn, heard_stop, heard_exit, ext_stops,
                   stdin_eof, stopped_in, interrupted>>
    /\ UNCHANGED <<recVars, wakeVars>>
    /\ UNCHANGED <<streamVars, convVars, turn_text>>

\* _process_speech, lines 134-136: the goodbye is over; stop(), return.
GoodbyeDone ==
    /\ mpc = "turn_goodbye" /\ spc = "returned"
    /\ spc' = "none"
    /\ assistant_stop
    /\ mpc' = "ptt_top"
    /\ UNCHANGED <<has_pygame, tmp_file, stext, played>>
    /\ UNCHANGED <<wake_word, ww_thread, ww_stream, ww_callbacks, detVars>>
    /\ UNCHANGED <<listening, stt_loaded, messages, response, stdin, keys,
                   late_turn, heard_stop, heard_exit, ext_stops, stdin_eof,
                   stopped_in, interrupted>>
    /\ UNCHANGED recVars
    /\ UNCHANGED <<streamVars, convVars, turn_text>>

\* VoiceAssistant.stop() called from another thread while run_async runs.
ExtStop ==
    /\ mpc \notin {"init", "done", "crashed"}
    /\ ext_stops < MaxExtStops
    /\ ext_stops' = ext_stops + 1
    /\ assistant_stop
    /\ stopped_in' = mpc
    /\ interrupted' =
           IF mpc \in {"turn_gen", "turn_reply"} THEN response ELSE interrupted
    /\ UNCHANGED <<has_pygame, tmp_file, spc, stext, played>>
    /\ UNCHANGED <<wake_word, ww_thread, ww_stream, ww_callbacks, detVars>>
    /\ UNCHANGED <<listening, mpc, stt_loaded, messages, response, stdin, keys,
                   late_turn, heard_stop, heard_exit, stdin_eof>>
    /\ UNCHANGED recVars
    /\ UNCHANGED <<streamVars, convVars, turn_text>>

(***************************************************************************)
(* TextToSpeech.speak_streaming                                            *)
(***************************************************************************)
StreamInit ==
    /\ ss_pc = "none"
    /\ ss_gen = <<>>
    /\ ss_buffer = <<>>
    /\ ss_handed = <<>>
    /\ tts_stops = 0
    /\ stop_mid_reply = FALSE
    /\ played_at_stop = 0
    /\ stopped_at = [ss |-> "none", sp |-> "none"]
    /\ ss_text = <<>>

\* tts.py:203
sentence_endings == {".", "!", "?", ";"}

\* The fragments a generator may yield, and the generators: finite streams
\* of one to MaxStreamChunks fragments.
Fragments == {<<"a">>, <<"b", ".">>, <<"c", "!", "d", "?">>, <<" ">>}
Generators == UNION {[1..n -> Fragments] : n \in 1..MaxStreamChunks}

\* tts.py:209-211: the index of the first terminator in the buffer, 0 when
\* there is none.
first_ending(buf) ==
    IF \E i \in 1..Len(buf) : buf[i] \in sentence_endings
    THEN CHOOSE i \in 1..Len(buf) :
             /\ buf[i] \in sentence_endings
             /\ \A j \in 1..(i - 1) : buf[j] \notin sentence_endings
    ELSE 0

\* The concatenation of the fragments of a generator.
RECURSIVE flatten(_)
flatten(gen) == IF gen = <<>> THEN <<>> ELSE Head(gen) \o flatten(Tail(gen))

\* tts.py:213: what stays in the buffer after the sentence ending at i.
after_sentence_skip(buf, i) == SubSeq(buf, i + 2, Len(buf))
after_sentence(buf, i) == SubSeq(buf, i + 1, Len(buf))

\* speak_streaming is called: lines 202-203.
stream_call(gen) ==
    /\ ss_pc = "none" /\ spc = "none"
    /\ ss_pc' = "next"
    /\ ss_gen' = gen
    /\ ss_buffer' = <<>>
    /\ ss_handed' = <<>>
    /\ ss_text' = flatten(gen)
    /\ played' = <<>>
    /\ UNCHANGED <<has_pygame, tts_stop_event, is_speaking, music_busy,
                   now_playing, tmp_file, spc, stext>>
    /\ UNCHANGED <<tts_stops, stop_mid_reply, played_at_stop, stopped_at>>

\* Lines 205-220: one fragment arrives; the first complete sentence of the
\* buffer, if there is one, is cut off and, when not blank, passed to speak().
stream_chunk ==
    /\ ss_pc = "next" /\ ss_gen # <<>>
    /\ ss_gen' = Tail(ss_gen)
    /\ LET buf == ss_buffer \o Head(ss_gen)
           i == first_ending(buf)
           sentence == strip(SubSeq(buf, 1, i))
       IN  IF i = 0
           THEN /\ ss_buffer' = buf
                /\ UNCHANGED <<ss_pc, ss_handed, ttsVars>>
           ELSE /\ ss_buffer' = after_sentence(buf, i)
                /\ IF sentence # <<>>
                   THEN /\ speak_call(sentence)
                        /\ ss_handed' = Append(ss_handed, sentence)
                        /\ ss_pc' = "sentence"
                   ELSE UNCHANGED <<ss_pc, ss_handed, ttsVars>>
    /\ UNCHANGED <<tts_stops, stop_mid_reply, played_at_stop, stopped_at,
                   ss_text>>

\* Lines 216-220: speak() has returned; with the stop event set
\* speak_streaming returns, otherwise it waits for the next fragment.
stream_sentence_done ==
    /\ ss_pc = "sentence" /\ spc = "returned"
    /\ spc' = "none"
    /\ ss_pc' = IF tts_stop_event THEN "done" ELSE "next"
    /\ UNCHANGED <<has_pygame, tts_stop_event, is_speaking, music_busy,
                   now_playing, tmp_file, stext, played>>
    /\ UNCHANGED <<ss_gen, ss_buffer, ss_handed, tts_stops, stop_mid_reply,
                   played_at_stop, stopped_at, ss_text>>

\* Lines 222-224: the generator is exhausted; what is left in the buffer is
\* spoken unless it is blank.
stream_end ==
    /\ ss_pc = "next" /\ ss_gen = <<>>
    /\ IF strip(ss_buffer) # <<>>
       THEN /\ speak_call(strip(ss_buffer))
            /\ ss_handed' = Append(ss_handed, strip(ss_buffer))
            /\ ss_pc' = "rest"
       ELSE /\ ss_pc' = "done"
            /\ UNCHANGED <<ss_handed, ttsVars>>
    /\ UNCHANGED <<ss_gen, ss_buffer, tts_stops, stop_mid_reply,
                   played_at_stop, stopped_at, ss_text>>

\* Line 224: the last speak() has returned.
stream_rest_done ==
    /\ ss_pc = "rest" /\ spc = "returned"
    /\ spc' = "none"
    /\ ss_pc' = "done"
    /\ UNCHANGED <<has_pygame, tts_stop_event, is_speaking, music_busy,
                   now_playing, tmp_file, stext, played>>
    /\ UNCHANGED <<ss_gen, ss_buffer, ss_handed, tts_stops, stop_mid_reply,
                   played_at_stop, stopped_at, ss_text>>

StreamCall ==
    /\ \E gen \in Generators : stream_call(gen)
    /\ UNCHANGED <<recVars, wakeVars, asstVars, convVars>>
StreamChunk == stream_chunk /\ UNCHANGED <<recVars, wakeVars, asstVars, convVars>>
StreamSentenceDone ==
    stream_sentence_done /\ UNCHANGED <<recVars, wakeVars, asstVars, convVars>>
StreamEnd == stream_end /\ UNCHANGED <<recVars, wakeVars, asstVars, convVars>>
StreamRestDone == stream_rest_done /\ UNCHANGED <<recVars, wakeVars, asstVars, convVars>>

\* TextToSpeech.stop() called by another task or thread while
\* speak_streaming runs.
StopSpeaking ==
    /\ ss_pc \in {"next", "sentence", "rest"}
    /\ tts_stops < MaxTtsStops
    /\ tts_stops' = tts_stops + 1
    /\ tts_stop
    /\ stop_mid_reply' = (played # <<>>)
    /\ played_at_stop' = Len(played)
    /\ stopped_at' = [ss |-> ss_pc, sp |-> spc]
    /\ UNCHANGED <<has_pygame, tmp_file, spc, stext, played>>
    /\ UNCHANGED <<ss_pc, ss_gen, ss_buffer, ss_handed, ss_text>>
    /\ UNCHANGED <<recVars, wakeVars, asstVars, convVars>>

\* The steps of speak() and of the mixer, whoever called speak().
SynthDone ==
    /\ \E audio_ok \in BOOLEAN : speak_synth_done(audio_ok)
    /\ UNCHANGED <<recVars, wakeVars, asstVars, streamVars, convVars>>
SpeakPlay ==
    /\ \E outcome \in {"ok", "no_file", "play_raises"} : speak_play(outcome)
    /\ UNCHANGED <<recVars, wakeVars, asstVars, streamVars, convVars>>
SpeakPollExit == speak_poll_exit /\ UNCHANGED <<recVars, wakeVars, asstVars, streamVars, convVars>>
MusicEnds == music_ends /\ UNCHANGED <<recVars, wakeVars, asstVars, streamVars, convVars>>

\* The steps of the detector's thread.
WakeOpen ==
    /\ \E ok \in BOOLEAN : wake_open(ok)
    /\ UNCHANGED <<recVars, ttsVars, asstVars, streamVars, convVars>>
WakeFrame ==
    /\ \E matched \in BOOLEAN : wake_frame(matched)
    /\ UNCHANGED <<recVars, ttsVars, asstVars, streamVars, convVars>>
WakeThreadExit == wake_loop_exit /\ UNCHANGED <<recVars, ttsVars, asstVars, streamVars, convVars>>

(***************************************************************************)
(* The recorder on its own: one thread calls record() again and again,     *)
(* the stream delivers arbitrary frames, another thread may call stop().   *)
(***************************************************************************)
VadOutcomes == {"speech", "silence", "raise"}

\* The components the recorder's own specifications leave alone.
Parked ==
    /\ TtsInit /\ has_pygame
    /\ WakeInit /\ wake_word = "none"
    /\ AsstInit
    /\ StreamInit
    /\ ConvDefault

\* record(max_duration) as the assistant calls it, and with a short limit.
RecordCall(c) ==
    /\ calls[c] < MaxCalls
    /\ record_enter(c, MaxDurationMs)
    /\ UNCHANGED <<ttsVars, wakeVars, asstVars, streamVars, convVars>>
RecordCallShort(c) ==
    /\ calls[c] < MaxShortCalls
    /\ record_enter(c, ShortDurationMs)
    /\ UNCHANGED <<ttsVars, wakeVars, asstVars, streamVars, convVars>>
OpenStream(c) == record_open(c) /\ UNCHANGED <<ttsVars, wakeVars, asstVars, streamVars, convVars>>
AudioFrame(c) ==
    /\ \E status \in BOOLEAN, vad \in VadOutcomes, loud \in BOOLEAN :
          audio_callback(c, status, vad, loud)
    /\ UNCHANGED <<ttsVars, wakeVars, asstVars, streamVars, convVars>>
RecordWake(c) == record_wake(c) /\ UNCHANGED <<ttsVars, wakeVars, asstVars, streamVars, convVars>>
RecordReturn(c) == record_return(c) /\ UNCHANGED <<ttsVars, wakeVars, asstVars, streamVars, convVars>>
StopRecording == recorder_stop /\ UNCHANGED <<ttsVars, wakeVars, asstVars, streamVars, convVars>>

StreamStep(c) ==
    \/ OpenStream(c)
    \/ AudioFrame(c)
    \/ RecordWake(c)
    \/ RecordReturn(c)

RecSpecInit == RecInit /\ Parked
RecNext == RecordCall(1) \/ StreamStep(1) \/ StopRecording
SpecRec == RecSpecInit /\ [][RecNext]_vars

\* The same under the scheduling the code gives the calling thread: entering
\* the with-block, waking from sd.sleep(100) (line 191) and running the code
\* after the loop are never postponed forever.
SpecRecFair ==
    /\ SpecRec
    /\ WF_vars(OpenStream(1))
    /\ WF_vars(RecordWake(1))
    /\ WF_vars(RecordReturn(1))

\* The same with a second thread calling record() as well.
Rec2Next ==
    \/ \E c \in Callers : RecordCallShort(c) \/ StreamStep(c)
    \/ StopRecording
SpecRec2 == RecSpecInit /\ [][Rec2Next]_vars

(***************************************************************************)
(* The assistant: run_async on the loop thread, with the recorder's        *)
(* stream, the mixer, the detector's thread, the keyboard and a thread     *)
(* that may call stop().                                                   *)
(***************************************************************************)
TurnInit ==
    RecInit /\ TtsInit /\ WakeInit /\ AsstInit /\ StreamInit /\ ConvDefault

TurnNext ==
    \/ RunStart \/ GreetDone \/ WakeLoopExit
    \/ PttTop \/ KeyPress \/ PttInput \/ PttEof
    \/ StreamStep(1)
    \/ TurnAfterRecord \/ LlmChunk \/ LlmEnd \/ ReplyDone \/ GoodbyeDone
    \/ SynthDone \/ SpeakPlay \/ SpeakPollExit \/ MusicEnds
    \/ WakeOpen \/ WakeFrame \/ WakeThreadExit
    \/ ExtStop
SpecTurn == TurnInit /\ [][TurnNext]_vars

\* The assistant with its input piped: the lines are there before run_async
\* starts and nothing is typed later.  The loop thread, the synthesis, the
\* mixer and the recorder's threads are never postponed forever.
PipedLines == <<"idle", "idle">>
ExitInit ==
    /\ RecInit /\ TtsInit /\ WakeInit /\ StreamInit /\ ConvDefault
    /\ running = FALSE
    /\ listening = FALSE
    /\ mpc = "init"
    /\ stt_loaded = FALSE
    /\ messages = <<[role |-> "system", content |-> system_prompt]>>
    /\ response = <<>>
    /\ stdin = PipedLines
    /\ keys = Len(PipedLines)
    /\ late_turn = FALSE
    /\ heard_stop = FALSE
    /\ heard_exit = FALSE
    /\ ext_stops = 0
    /\ stdin_eof = FALSE
    /\ stopped_in = "no"
    /\ interrupted = <<>>
    /\ turn_text = <<>>

ExitNext ==
    \/ RunStart \/ GreetDone \/ WakeLoopExit
    \/ PttTop \/ PttInput \/ PttEof
    \/ StreamStep(1)
    \/ TurnAfterRecord \/ LlmChunk \/ LlmEnd \/ ReplyDone \/ GoodbyeDone
    \/ SynthDone \/ SpeakPlay \/ SpeakPollExit \/ MusicEnds
    \/ WakeOpen \/ WakeFrame \/ WakeThreadExit
    \/ ExtStop

SpecExit ==
    /\ ExitInit /\ [][ExitNext]_vars
    /\ WF_vars(SynthDone) /\ WF_vars(SpeakPlay)
    /\ WF_vars(SpeakPollExit) /\ WF_vars(MusicEnds)
    /\ WF_vars(GoodbyeDone) /\ WF_vars(PttTop)

(***************************************************************************)
(* speak_streaming on its own: a task consumes a generator and speaks its  *)
(* sentences; another task or thread may call TextToSpeech.stop().         *)
(***************************************************************************)
StreamSpecInit ==
    /\ RecInit
    /\ TtsInit
    /\ WakeInit /\ wake_word = "none"
    /\ AsstInit
    /\ StreamInit
    /\ ConvDefault

StreamNext ==
    \/ StreamCall \/ StreamChunk \/ StreamSentenceDone
    \/ StreamEnd \/ StreamRestDone
    \/ SynthDone \/ SpeakPlay \/ SpeakPollExit \/ MusicEnds
    \/ StopSpeaking
SpecStream == StreamSpecInit /\ [][StreamNext]_vars

(***************************************************************************)
(* The detector alone.                                                     *)
(***************************************************************************)
WakeSpecInit ==
    /\ RecInit /\ TtsInit /\ has_pygame
    /\ AsstInit /\ StreamInit /\ ConvDefault
    /\ WakeInit /\ wake_word = "available"

DetOthers == UNCHANGED <<recVars, ttsVars, asstVars, streamVars, convVars>>
DetStart == det_start /\ DetOthers
DetStop ==
    /\ det_pc = "idle"
    /\ det_stop_enter("stop_join", "idle")
    /\ DetOthers
DetStopReturn == det_join_return("stop_join", "idle") /\ DetOthers
DetCleanup ==
    /\ det_pc = "idle"
    /\ det_stop_enter("cleanup_join", "cleanup_delete")
    /\ DetOthers
DetCleanupJoined ==
    det_join_return("cleanup_join", "cleanup_delete") /\ DetOthers
DetDelete == det_delete /\ DetOthers
DetForget == det_forget /\ DetOthers
DetOpen == /\ \E t \in Loops, ok \in BOOLEAN : det_open(t, ok)
           /\ DetOthers
DetLeave == (\E t \in Loops : det_leave(t)) /\ DetOthers
DetClose == (\E t \in Loops : det_close(t)) /\ DetOthers
DetFrame == (\E t \in Loops : det_frame(t)) /\ DetOthers
DetProcess == /\ \E t \in Loops, matched \in BOOLEAN : det_process(t, matched)
              /\ DetOthers
DetWakeDone == /\ \E t \in Loops, raised \in BOOLEAN : det_wake_done(t, raised)
               /\ DetOthers

WakeNext ==
    \/ DetStart \/ DetStop \/ DetStopReturn
    \/ DetCleanup \/ DetCleanupJoined \/ DetDelete \/ DetForget
    \/ DetOpen \/ DetLeave \/ DetClose
    \/ DetFrame \/ DetProcess \/ DetWakeDone
SpecWake == WakeSpecInit /\ [][WakeNext]_vars

(***************************************************************************)
(* The conversation store alone: messages are added while saving may fail. *)
(***************************************************************************)
ConvTexts == {<<"h", "i">>, <<"o", "k", ".">>}

AddUserMessage ==
    /\ Len(messages) <= MaxMessages
    /\ \E content \in ConvTexts, outcome \in SaveOutcomes :
           add_message_as("user", content, outcome)
    /\ UNCHANGED <<running, listening, mpc, stt_loaded, response, stdin, keys,
                   late_turn, heard_stop, heard_exit, ext_stops, stdin_eof,
                   stopped_in, interrupted, turn_text>>
    /\ UNCHANGED <<recVars, ttsVars, wakeVars, streamVars>>

AddAssistantMessage ==
    /\ Len(messages) <= MaxMessages
    /\ \E content \in ConvTexts, outcome \in SaveOutcomes :
           add_message_as("assistant", content, outcome)
    /\ UNCHANGED <<running, listening, mpc, stt_loaded, response, stdin, keys,
                   late_turn, heard_stop, heard_exit, ext_stops, stdin_eof,
                   stopped_in, interrupted, turn_text>>
    /\ UNCHANGED <<recVars, ttsVars, wakeVars, streamVars>>

ConvSpecInit ==
    /\ RecInit
    /\ TtsInit /\ has_pygame
    /\ WakeInit /\ wake_word = "none"
    /\ AsstInit
    /\ StreamInit
    /\ ConvInit
ConvNext == AddUserMessage \/ AddAssistantMessage
SpecConv == ConvSpecInit /\ [][ConvNext]_vars

\* conversation.py:79-86: messages_for_llm.
messages_for_llm ==
    IF Len(messages) <= max_history + 1
    THEN messages
    ELSE <<messages[1]>>
             \o SubSeq(messages, Len(messages) - max_history + 1, Len(messages))

\* conversation.py:131-141: clear_history(keep_system); nothing is saved.
clear_history(keep_system) ==
    /\ messages' = IF keep_system /\ system_prompt # <<>>
                   THEN <<[role |-> "system", content |-> system_prompt]>>
                   ELSE <<>>
    /\ UNCHANGED convVars

ClearHistory ==
    /\ \E keep_system \in BOOLEAN : clear_history(keep_system)
    /\ UNCHANGED <<running, listening, mpc, stt_loaded, response, stdin, keys,
                   late_turn, heard_stop, heard_exit, ext_stops, stdin_eof,
                   stopped_in, interrupted, turn_text>>
    /\ UNCHANGED <<recVars, ttsVars, wakeVars, streamVars>>

\* The store with clear_history called between the additions.
HistoryNext == AddUserMessage \/ AddAssistantMessage \/ ClearHistory
SpecHistory == ConvSpecInit /\ [][HistoryNext]_vars

(***************************************************************************)
(* Properties of the recorder                                              *)
(***************************************************************************)
SpeechIndexes(f) == {i \in 1..Len(f) : f[i]}
NumSpeech(f) == Cardinality(SpeechIndexes(f))
FirstSpeech(f) ==
    CHOOSE i \in SpeechIndexes(f) : \A j \in SpeechIndexes(f) : i <= j
\* f holds a speech frame immediately followed by frames_for_silence
\* consecutive silence frames, the last of them at position e.
PatternEndsAt(f, e) ==
    /\ e - frames_for_silence >= 1
    /\ e <= Len(f)
    /\ f[e - frames_for_silence]
    /\ \A j \in (e - frames_for_silence + 1)..e : ~f[j]
ContainsPattern(f) == \E e \in 1..Len(f) : PatternEndsAt(f, e)
\* The frames of stream c from its first speech frame to its last processed frame.
SegmentOf(c) ==
    LET f == fed[c]
        s == FirstSpeech(f)
    IN  [k \in 1..(Len(f) - s + 1) |-> Frame(c, s + k - 1, f[s + k - 1])]
\* record() of caller c has returned through lines 193-207.
Returned(c) == rpc[c] = "idle" /\ path[c] \in {"wav", "empty", "error"}

\* C1 (as stated): a recording whose frames hold a speech frame followed by
\* frames_for_silence silence frames, shorter than the limit, returns a segment
\* of exactly (number of speech frames) + frames_for_silence frames.
C1_SpeechPlusTrailingSilence ==
    \A c \in Callers :
        (Returned(c) /\ ContainsPattern(fed[c]) /\ Len(fed[c]) < max_frames[c])
        => /\ ret[c].kind = "wav"
           /\ Len(ret[c].frames) = NumSpeech(fed[c]) + frames_for_silence

\* C1 (amended): the recording ends at the first frame that completes a run of
\* frames_for_silence silence frames after speech; no later frame is processed
\* or appended; the segment is every frame from the first speech frame to that
\* frame, in order: the speech frames, the trailing silence frames and the
\* shorter runs of silence between speech frames.  Leading silence is left out.
C1_SegmentFromFirstSpeech ==
    \A c \in Callers :
        ContainsPattern(fed[c])
        => /\ PatternEndsAt(fed[c], Len(fed[c]))
           /\ \A e \in 1..(Len(fed[c]) - 1) : ~PatternEndsAt(fed[c], e)
           /\ ~is_recording
           /\ rpc[c] # "idle" => audio_buffer = SegmentOf(c)
           /\ rpc[c] = "idle" => ret[c] = create_wav(SegmentOf(c))

\* A returned segment with leading silence and a pause inside the speech.
C1_Witness ==
    /\ Returned(1) /\ ret[1].kind = "wav"
    /\ ContainsPattern(fed[1])
    /\ FirstSpeech(fed[1]) > 1
    /\ Len(ret[1].frames) > NumSpeech(fed[1]) + frames_for_silence

\* C2 (as stated): an all-silence recording returns no segment, and returns
\* None only when stop() was called.
C2_NoneOnlyWhenStopped ==
    \A c \in Callers :
        (Returned(c) /\ Len(fed[c]) >= 1 /\ NumSpeech(fed[c]) = 0)
        => ret[c] = NoneResult /\ stop_seen[c]

\* C2 (amended): an all-silence recording never appends a frame and never
\* returns a segment; it returns None, and it ends because stop() was called,
\* because the frame counter reached max_frames, or because the stream could
\* not be opened.
C2_AllSilenceGivesNone ==
    \A c \in Callers :
        NumSpeech(fed[c]) = 0
        => /\ rpc[c] # "idle" => audio_buffer = <<>>
           /\ Returned(c)
              => /\ ret[c] = NoneResult
                 /\ \/ stop_seen[c]
                    \/ frame_count[c] >= max_frames[c]
                    \/ path[c] = "error"

\* An all-silence recording that ran into the frame limit with no stop().
C2_Witness ==
    /\ Returned(1) /\ ret[1] = NoneResult /\ path[1] = "empty"
    /\ Len(fed[1]) = max_frames[1] /\ NumSpeech(fed[1]) = 0
    /\ ~stop_seen[1]

\* C3: the segment buffer never holds more than max_frames frames; the frame
\* counter never passes max_frames, and when it reaches it the recording flag
\* is cleared; a speech-only recording that reaches the limit returns the
\* max_frames frames captured.
C3_BoundedByMaxFrames ==
    \A c \in Callers :
        calls[c] > 0
        => /\ Len(audio_buffer) <= max_frames[c]
           /\ frame_count[c] <= max_frames[c]
           /\ frame_count[c] = max_frames[c] => ~is_recording
           /\ (Returned(c) /\ NumSpeech(fed[c]) = max_frames[c])
              => ret[c] = create_wav(SegmentOf(c))
                 /\ Len(ret[c].frames) = max_frames[c]

\* A speech-only recording cut at the limit.
C3_Witness ==
    /\ Returned(1) /\ ret[1].kind = "wav"
    /\ NumSpeech(fed[1]) = max_frames[1]
    /\ Len(ret[1].frames) = max_frames[1]
    /\ ~stop_seen[1]

Last(seq) == seq[Len(seq)]

\* C4: an activation that arrives while a turn is in progress is dropped: no
\* turn is ever started by a key that was pressed during an earlier turn.
C4_BusyActivationDropped == ~late_turn

\* C6: once TextToSpeech.stop() has been issued while a reply is being
\* spoken, no further sentence of that reply starts to play.
C6_StopEndsReply == stop_mid_reply => Len(played) = played_at_stop

\* C7: whatever collaborator fails during a turn, run_async is not terminated
\* by it.
C7_RunLoopSurvivesFailure == mpc # "crashed"

\* C8: when VoiceAssistant.stop() is issued during a turn every in-flight
\* operation is stopped: a recording in progress is ended, and no playback is
\* under way after a stop issued while recording, generating or speaking.
C8_StopHaltsInFlight ==
    /\ (stopped_in = "turn_record" /\ mpc = "turn_record") => ~is_recording
    /\ stopped_in \in {"turn_record", "turn_gen", "turn_reply"} => ~music_busy

\* C9: a recognized "stop" utterance is an interruption, not a shutdown: with
\* no other exit phrase heard, no stop() from outside, no end of input and no
\* crash, the assistant is still running after it.
C9_StopUtteranceKeepsRunning ==
    (heard_stop /\ ~heard_exit /\ ext_stops = 0 /\ ~stdin_eof
        /\ mpc \notin {"init", "crashed"})
        => running

\* C10: when a turn is interrupted while its reply is generated or spoken,
\* with part of the reply already generated, the assistant message stored for
\* the turn is the reply as generated up to the interruption, and the reply is
\* not playing afterwards.
C10_PartialReplyInHistory ==
    (stopped_in \in {"turn_gen", "turn_reply"} /\ interrupted # <<>>
        /\ mpc # "turn_gen")
        => /\ Last(messages) = [role |-> "assistant", content |-> interrupted]
           /\ ~music_busy

C12_OneActivationVariant ==
    /\ mpc = "wake_loop" => (wake_word = "available" /\ ww_thread # "none")
    /\ mpc \in PttStates =>
           (wake_word # "available" /\ ww_thread = "none" /\ ww_callbacks = 0)
    /\ wake_word # "available" /\ mpc # "done" =>
           (ww_thread = "none" /\ ww_callbacks = 0)
C12_Witness ==
    /\ wake_word = "unavailable"
    /\ mpc = "turn_record"
    /\ is_recording
    /\ ww_thread = "none"

\* An input stream object exists from the entry of its with-block to the
\* exit, also after its callback has aborted it.
OpenInputStreams ==
    Cardinality({c \in Callers : stream[c] # "closed"})
        + (IF ww_stream # "closed" THEN 1 ELSE 0)

C14_NoRecordingDuringPlayback ==
    music_busy => (rpc[1] = "idle" /\ stream[1] = "closed" /\ ~is_recording)
C14_Witness ==
    /\ music_busy
    /\ mpc = "turn_reply"
    /\ now_playing = response
    /\ path[1] = "wav"
    /\ stream[1] = "closed"

\* C15: during a turn the first completed sentence of the reply is handed to
\* playback before the language-model stream has been consumed: while the
\* reply is still being generated and already holds a complete sentence,
\* speak() has been called for this turn.
C15_FirstSentenceSpokenWhileGenerating ==
    (mpc = "turn_gen" /\ first_ending(response) # 0)
        => (spc # "none" \/ played # <<>>)

\* The texts handed to speak() are, in order, the trimmed pieces of a cut of
\* the text into consecutive pieces (what is left after the last piece being
\* blank).
RECURSIVE CutsInto(_, _)
CutsInto(text, handed) ==
    IF handed = <<>>
    THEN strip(text) = <<>>
    ELSE \E n \in 1..Len(text) :
             /\ strip(SubSeq(text, 1, n)) = Head(handed)
             /\ CutsInto(SubSeq(text, n + 1, Len(text)), Tail(handed))

\* C16: when speak_streaming has consumed a finite stream with no stop
\* signal, the texts it handed to speak(), in call order, are the text of the
\* stream in order, nothing reordered, repeated or dropped, up to the
\* trimming of blanks at the edges of each piece.
C16_SpokenTextsAreTheReply ==
    (ss_pc = "done" /\ tts_stops = 0) => CutsInto(ss_text, ss_handed)
C16_Witness ==
    /\ ss_pc = "done"
    /\ tts_stops = 0
    /\ Len(ss_handed) = 3
    /\ Len(played) = 3

\* C17: SpeechToText.transcribe never raises: the step in which the turn
\* passes the transcription of its segment always leaves the turn inside
\* _process_speech or back at the top of the loop, never ends run_async with
\* an exception.
C17_TranscribeNeverRaises ==
    [][(mpc = "turn_record" /\ mpc' # "turn_record")
          => mpc' \in {"ptt_top", "turn_goodbye", "turn_gen"}]_vars

C19_TempFileSpansPlayback ==
    /\ music_busy => tmp_file
    /\ spc \in {"none", "returned"} => ~tmp_file

\* C20: AudioRecorder.stop() only clears the flag.  Called with no recording
\* in progress it changes nothing; called when the flag is already clear (a
\* second call) it changes nothing of the recorder; called during a recording
\* no later frame is processed (the callback aborts at its next frame, nothing
\* is appended or counted) and record() returns.
StopDuringRecording == stop_seen[1] /\ rpc[1] # "idle"
C20_StopIdempotentAndAborts ==
    /\ [][/\ recorder_stop => ~is_recording'
          /\ (recorder_stop /\ rpc[1] = "idle") => UNCHANGED vars
          /\ (recorder_stop /\ ~is_recording) =>
                 UNCHANGED <<is_recording, audio_buffer, rpc, speech_started,
                             silence_frames, frame_count, max_frames, stream,
                             ret, path>>
          /\ StopDuringRecording =>
                 /\ fed' = fed
                 /\ audio_buffer' = audio_buffer
                 /\ frame_count' = frame_count
                 /\ (stream[1] = "active" /\ stream'[1] # "active") =>
                        stream'[1] \in {"aborted", "closed"}
         ]_vars
    /\ StopDuringRecording ~> rpc[1] = "idle"
C20_Witness ==
    /\ stop_seen[1]
    /\ stream[1] = "aborted"
    /\ rpc[1] = "waiting"
    /\ speech_started[1]
    /\ audio_buffer # <<>>

\* C21: in push-to-talk mode every line read by input() starts exactly one
\* turn while the assistant is running and none once stop() has cleared the
\* flag; a turn starts only by reading such a line, and the flag never comes
\* back.
LineRead == stdin # <<>> /\ stdin' = Tail(stdin)
TurnStarts == mpc # "turn_record" /\ mpc' = "turn_record"
Stopped == ~running /\ mpc # "init"
C21_OneTurnPerKeypress ==
    [][/\ LineRead => (mpc = "ptt_input" /\ calls'[1] - calls[1] = (IF running THEN 1 ELSE 0))
       /\ ((LineRead /\ running) <=> TurnStarts)
       /\ calls'[1] # calls[1] => LineRead
       /\ Stopped => (/\ ~running'
                      /\ ~TurnStarts
                      /\ calls' = calls)
      ]_vars
C21_Witness ==
    /\ ~running
    /\ stopped_in = "ptt_input"
    /\ mpc = "ptt_top"
    /\ keys = 1 /\ stdin = <<>>
    /\ calls[1] = 0

\* C22: add_user_message and add_assistant_message never raise because of the
\* session file: whatever save() does, the call appends its message at the end
\* of the in-memory history, keeps what was there, and returns.
C22_AddNeverPropagates ==
    /\ [](~add_raised)
    /\ [][messages' # messages =>
             /\ Len(messages') = Len(messages) + 1
             /\ SubSeq(messages', 1, Len(messages)) = messages
             /\ messages'[Len(messages')].content \in ConvTexts]_vars
C22_Witness ==
    /\ persist /\ save_warned /\ ~add_raised
    /\ Len(messages) = 3
    /\ saved.state = "partial"

\* The endpointing of lines 125-179 run from a fresh start over a sequence of
\* classified frames: whether speech has started, the run of silence, the
\* frames counted, the frames kept, and whether the recording has ended.
RECURSIVE Endpoint(_, _)
Endpoint(frames, limit) ==
    IF frames = <<>>
    THEN [started |-> FALSE, sil |-> 0, count |-> 0, kept |-> 0, ended |-> FALSE]
    ELSE LET p == Endpoint(SubSeq(frames, 1, Len(frames) - 1), limit)
             is_speech == frames[Len(frames)]
             sil == IF is_speech THEN 0
                    ELSE IF p.started THEN p.sil + 1 ELSE p.sil
         IN  IF p.ended THEN p
             ELSE [started |-> p.started \/ is_speech,
                   sil |-> sil,
                   count |-> p.count + 1,
                   kept |-> IF appends(is_speech, p.started)
                            THEN p.kept + 1 ELSE p.kept,
                   ended |-> \/ silence_end(is_speech, p.started, sil)
                             \/ max_end(p.count + 1, limit)]

\* C23: endpointing is a function of the classified frames alone.  During a
\* call the locals and the buffer are what a fresh run over the frames fed so
\* far gives, whatever an earlier call left behind; a call that no stop()
\* touched ends at the first frame where the fresh run ends and returns as
\* many frames as the fresh run keeps.
C23_EndpointingDeterministic ==
    LET run == Endpoint(fed[1], max_frames[1])
    IN  /\ rpc[1] # "idle" =>
               /\ speech_started[1] = run.started
               /\ silence_frames[1] = run.sil
               /\ frame_count[1] = run.count
               /\ Len(audio_buffer) = run.kept
        /\ (rpc[1] = "idle" /\ path[1] \in {"wav", "empty"} /\ ~stop_seen[1]) =>
               /\ run.ended
               /\ \A n \in 0..(Len(fed[1]) - 1) :
                      ~Endpoint(SubSeq(fed[1], 1, n), max_frames[1]).ended
               /\ Len(ret[1].frames) = run.kept
C23_Witness ==
    /\ calls[1] = 2
    /\ rpc[1] = "idle" /\ path[1] = "wav" /\ ~stop_seen[1]
    /\ fed[1] = <<FALSE, TRUE, FALSE, FALSE>>
    /\ Len(ret[1].frames) = 3

\* C24: when the transcription of a turn is empty, shorter than two characters
\* once trimmed, or an exit phrase, the turn adds no message to the history
\* and starts no generation; it ends the turn (back to the top of the loop),
\* or speaks the goodbye and then clears the running flag for an exit phrase.
Transcribed ==
    /\ mpc = "turn_record" /\ mpc' \notin {"turn_record", "crashed"}
    /\ ret[1].kind = "wav"
IsExitPhrase(t) == strip(lower(t)) \in exit_commands
\* Empty, or fewer than two characters once trimmed.
BelowMinimum(t) == Len(strip(t)) < 2
C24_SkipsGeneration ==
    [][/\ (Transcribed /\ (BelowMinimum(turn_text') \/ IsExitPhrase(turn_text'))) =>
             /\ messages' = messages
             /\ response' = response
             /\ mpc' # "turn_gen"
             /\ IF BelowMinimum(turn_text')
                THEN mpc' = "ptt_top" /\ running' = running
                ELSE mpc' = "turn_goodbye" /\ spc' # "none" /\ running' = running
       /\ (mpc = "turn_goodbye" /\ mpc' # "turn_goodbye") =>
             /\ ~running'
             /\ messages' = messages
             /\ mpc' = "ptt_top"
       /\ (mpc # "turn_gen" /\ mpc' = "turn_gen") =>
             (Transcribed /\ ~BelowMinimum(turn_text') /\ ~IsExitPhrase(turn_text'))
      ]_vars
C24_Witness ==
    /\ turn_text = <<"a">>
    /\ mpc = "ptt_top" /\ running
    /\ path[1] = "wav"
    /\ Len(messages) = 1

\* C25: record() never returns an empty segment.  A returned WAV holds at
\* least one frame; a call that kept no frame returns None; and a call ended
\* by the frame limit after speech has started returns the frames kept until
\* then.
C25_NoEmptySegment ==
    LET run == Endpoint(fed[1], max_frames[1])
    IN  rpc[1] = "idle" =>
           /\ ret[1].kind = "wav" => (ret[1].frames # <<>> /\ path[1] = "wav")
           /\ (path[1] \in {"wav", "empty"} /\ run.kept = 0) => ret[1] = NoneResult
           /\ (path[1] \in {"wav", "empty"} /\ run.kept > 0) =>
                  (ret[1].kind = "wav" /\ Len(ret[1].frames) = run.kept)
           /\ ( /\ path[1] \in {"wav", "empty"}
                /\ speech_started[1]
                /\ frame_count[1] = max_frames[1] ) =>
                  (ret[1].kind = "wav" /\ ret[1].frames = SegmentOf(1))
C25_Witness ==
    /\ rpc[1] = "idle" /\ path[1] = "wav" /\ ~stop_seen[1]
    /\ frame_count[1] = max_frames[1]
    /\ fed[1][Len(fed[1])]
    /\ Len(ret[1].frames) = 2

\* C26: a frame on which the classifier raised is handled as silence: it is
\* not classified as speech and it does not start the segment.
C26_ClassifierFailureIsSilence ==
    last_frame[1].vad = "raise" =>
        /\ ~fed[1][Len(fed[1])]
        /\ (speech_started[1] => \E k \in 1..(Len(fed[1]) - 1) : fed[1][k])

\* C27: within one call on_speech_start is called once, on the first frame
\* classified as speech and on no other, and not at all when no frame is
\* speech; the silence frames before the first speech frame are not in the
\* buffer.
C27_SpeechStartOnce ==
    /\ [](/\ speech_starts[1] = (IF NumSpeech(fed[1]) > 0 THEN 1 ELSE 0)
          /\ \A i \in 1..Len(audio_buffer) :
                 /\ NumSpeech(fed[1]) > 0
                 /\ audio_buffer[i].idx >= FirstSpeech(fed[1]))
    /\ [][speech_starts'[1] > speech_starts[1] =>
             /\ fed'[1] # fed[1]
             /\ fed'[1][Len(fed'[1])]
             /\ FirstSpeech(fed'[1]) = Len(fed'[1])]_vars
C27_Witness ==
    /\ rpc[1] = "idle" /\ path[1] = "wav"
    /\ ~fed[1][1]
    /\ NumSpeech(fed[1]) >= 2
    /\ speech_starts[1] = 1
    /\ Len(ret[1].frames) = Len(fed[1]) - 1

\* C28: a frame delivered with an overrun / underrun status is handled as
\* silence: it is not classified as speech.
C28_StatusFrameIsSilence ==
    last_frame[1].status => ~fed[1][Len(fed[1])]

\* C29: whenever speak_streaming waits for the next fragment, every complete
\* sentence received so far has been passed on: the pending buffer holds no
\* sentence terminator.
C29_NoTerminatorLeftPending ==
    ss_pc = "next" => first_ending(ss_buffer) = 0

\* C30: once an exit phrase has been recognized the goodbye is passed to
\* speak() and is what the mixer plays; when speak() has returned the running
\* flag is cleared; no turn is started from then on; and run_async leaves its
\* loop and runs cleanup(), after which playback is stopped and the detector,
\* if there is one, is told to stop.
ExitRecognized == mpc = "turn_goodbye"
CleanedUp ==
    /\ mpc = "done" /\ ~running
    /\ tts_stop_event /\ ~music_busy /\ ~is_speaking
    /\ wake_word # "none" => (ww_stop_event /\ ~ww_is_listening)
NonSystem(msgs) == SelectSeq(msgs, LAMBDA m : m.role # "system")
LastOf(seq, n) ==
    IF Len(seq) <= n THEN seq ELSE SubSeq(seq, Len(seq) - n + 1, Len(seq))
C31_PromptThenRecentWindow ==
    messages_for_llm =
        <<[role |-> "system", content |-> system_prompt]>>
            \o LastOf(NonSystem(messages), max_history)

\* C32: a record() call on which stop() was called stays stopped: while it
\* has not returned the flag stays clear, whatever other call is made, so its
\* wait loop ends; and the buffer never holds frames of two calls.
C32_StoppedCallNotRearmed ==
    /\ \A c \in Callers :
           (stop_seen[c] /\ rpc[c] \in {"opening", "waiting"}) => ~is_recording
    /\ \A i, j \in 1..Len(audio_buffer) :
           audio_buffer[i].call = audio_buffer[j].call

\* The number of silence frames at the end of a buffer.
RECURSIVE TailSilence(_)
TailSilence(buf) ==
    IF buf = <<>> \/ buf[Len(buf)].speech THEN 0
    ELSE 1 + TailSilence(SubSeq(buf, 1, Len(buf) - 1))

\* C33: while a call of record() is in progress the buffer is empty until the
\* first speech frame and from then on holds every frame from that one to the
\* last one processed, in arrival order; the silence counter is the number of
\* silence frames at the end of the buffer, hence 0 after a speech frame.
C33_BufferIsContiguousRun ==
    rpc[1] # "idle" =>
        /\ NumSpeech(fed[1]) = 0 => audio_buffer = <<>>
        /\ NumSpeech(fed[1]) > 0 => audio_buffer = SegmentOf(1)
        /\ silence_frames[1] = TailSilence(audio_buffer)
        /\ (fed[1] # <<>> /\ fed[1][Len(fed[1])]) => silence_frames[1] = 0
C33_Witness ==
    /\ rpc[1] = "waiting" /\ is_recording
    /\ fed[1] = <<FALSE, TRUE, FALSE, TRUE, FALSE>>
    /\ Len(audio_buffer) = 4
    /\ silence_frames[1] = 1

\* C34: a stop() that arrives while speak() synthesizes a sentence, or while
\* speak_streaming waits between two sentences for the next fragment, is not
\* lost: no sentence starts to play after it.
StopBeforePlayback ==
    /\ tts_stops > 0
    /\ \/ stopped_at.sp = "synth"
       \/ stopped_at.ss = "next" /\ played_at_stop > 0
C34_StopBeforePlaybackHeld ==
    StopBeforePlayback => Len(played) = played_at_stop

\* The listen-loop threads that are alive.
RunningLoops == {t \in Loops : is_alive(t)}

\* C35: whatever start() and stop() calls are made, at most one listen loop
\* runs at a time; between calls _is_listening is true exactly when a loop
\* runs; start() while listening changes nothing; and after stop() has
\* returned on_wake is not invoked until start() is called again.
C35_OneLoopFlagExact ==
    /\ [](Cardinality(RunningLoops) <= 1)
    /\ [](det_pc = "idle" => (ww_is_listening <=> RunningLoops # {}))
    /\ [][(det_start /\ ww_is_listening) => UNCHANGED vars]_vars
    /\ [][stop_returned => ww_callbacks' = ww_callbacks]_vars

\* C36: the audio callback never calls process() on an engine that cleanup()
\* has deleted, and the engine is deleted at most once however often
\* cleanup() is called.
C36_NoUseAfterDelete ==
    /\ ~used_deleted
    /\ deletes <= 1

\* C37: the messages after the system prompt alternate user, assistant,
\* starting with a user message; a user message is the last one only while
\* its own turn is generating the reply, so no turn adds a user message
\* before the turn before it has added its assistant message.
C37_RolesAlternate ==
    LET ns == NonSystem(messages)
    IN  /\ \A i \in 1..Len(ns) :
               ns[i].role = IF i % 2 = 1 THEN "user" ELSE "assistant"
        /\ (Len(ns) % 2 = 1) <=> (mpc = "turn_gen")
        /\ mpc = "turn_gen" => ns[Len(ns)].content = turn_text
C37_Witness ==
    /\ Len(NonSystem(messages)) = 4
    /\ mpc = "ptt_top"

=============================================================================
